---- MODULE Spec2Model ----
(***************************************************************************)
(* csvtools.py: delimiter detection, field cleaning, type inference and    *)
(* the format_csv pipeline (read, split, clean, pad, widths, majority      *)
(* types, table rendering, anomaly scan, debug report).                    *)
(*                                                                         *)
(* A Python str is a sequence of one-character strings.  None is held as   *)
(* the falsy value of the same kind wherever the code only tests           *)
(* truthiness: CUSTOM_DELIMITER None is the empty sequence (main sets it   *)
(* only when the flag is truthy, line 137) and num_rows_to_print None is 0 *)
(* (line 207 reads it through `or`).  A type tag is one of the strings     *)
(* "bool", "int", "float", "str"; "None" is the missing majority.          *)
(***************************************************************************)
EXTENDS Integers, Sequences, FiniteSets, TLC

VARIABLES
    pc,                    \* position inside the entry point being run
    outcome,               \* "running", "ok", "empty" or the exception that ended the run
    CUSTOM_DELIMITER,      \* global, line 14 / 138
    DISPLAY_TABLE,         \* global, line 15 / 136
    DEBUG_MODE,            \* global, line 12 / 132
    CONFIG,                \* global, lines 20-28, after load_config
    file,                  \* the lines of the input file, terminators removed
    sample_row,            \* format_csv local / detect_delimiter argument
    delimiter,             \* format_csv local
    rows,                  \* format_csv local
    expected_length,       \* format_csv local
    col_widths,            \* format_csv local
    column_types,          \* format_csv local
    expected_types,        \* format_csv local
    incorrect_length_rows, \* format_csv local
    type_mismatches,       \* format_csv local
    output,                \* format_csv local: the output lines
    raw_field,             \* the string first handed to clean_field
    field,                 \* clean_field local: its argument, then its result
    field_once,            \* result of the first clean_field application
    value,                 \* detect_type argument
    hint,                  \* detect_type expected_type argument
    tag_plain,             \* detect_type(value)
    tag_hinted             \* detect_type(value, hint)

vars == <<pc, outcome, CUSTOM_DELIMITER, DISPLAY_TABLE, DEBUG_MODE, CONFIG,
          file, sample_row, delimiter, rows, expected_length, col_widths,
          column_types, expected_types, incorrect_length_rows, type_mismatches,
          output, raw_field, field, field_once, value, hint, tag_plain, tag_hinted>>

(***************************************************************************)
(* Strings                                                                 *)
(***************************************************************************)
Chars(s) == [i \in 1..Len(s) |-> SubSeq(s, i, i)]

Whitespace == {" ", "\t", "\n", "\r", "\f"}

Digits == {"0", "1", "2", "3", "4", "5", "6", "7", "8", "9"}

UpperLetters == Chars("ABCDEFGHIJKLMNOPQRSTUVWXYZ")

LowerLetters == Chars("abcdefghijklmnopqrstuvwxyz")

IndexIn(c, letters) ==
    IF \E i \in 1..Len(letters) : letters[i] = c
    THEN CHOOSE i \in 1..Len(letters) : letters[i] = c
    ELSE 0

upper_char(c) ==
    IF IndexIn(c, LowerLetters) > 0 THEN UpperLetters[IndexIn(c, LowerLetters)] ELSE c

lower_char(c) ==
    IF IndexIn(c, UpperLetters) > 0 THEN LowerLetters[IndexIn(c, UpperLetters)] ELSE c

upper(s) == [i \in 1..Len(s) |-> upper_char(s[i])]

lower(s) == [i \in 1..Len(s) |-> lower_char(s[i])]

Max(a, b) == IF a >= b THEN a ELSE b

\* s[from:] with from counted from 1
DropTo(s, from) == SubSeq(s, from, Len(s))

\* needle occurs in s at position i
OccursAt(needle, s, i) ==
    /\ i >= 1
    /\ i + Len(needle) - 1 <= Len(s)
    /\ SubSeq(s, i, i + Len(needle) - 1) = needle

\* Python `needle in s`
Contains(needle, s) == \E i \in 1..(Len(s) + 1) : OccursAt(needle, s, i)

\* re.search(c{2,}, s): two consecutive occurrences of the character c
HasRun2(c, s) == \E i \in 1..(Len(s) - 1) : s[i] = c /\ s[i + 1] = c

\* str.strip() with no argument
strip_left(s) ==
    IF \E i \in 1..Len(s) : s[i] \notin Whitespace
    THEN DropTo(s, CHOOSE i \in 1..Len(s) :
                     /\ s[i] \notin Whitespace
                     /\ \A j \in 1..(i - 1) : s[j] \in Whitespace)
    ELSE << >>

strip_right(s) ==
    IF \E i \in 1..Len(s) : s[i] \notin Whitespace
    THEN SubSeq(s, 1, CHOOSE i \in 1..Len(s) :
                        /\ s[i] \notin Whitespace
                        /\ \A j \in (i + 1)..Len(s) : s[j] \in Whitespace)
    ELSE << >>

strip(s) == strip_right(strip_left(s))

\* re.sub(r'\s+', ' ', s): every maximal whitespace run becomes one space
RECURSIVE collapse_whitespace(_)
collapse_whitespace(s) ==
    IF s = << >> THEN << >>
    ELSE IF s[1] \in Whitespace
         THEN IF Len(s) >= 2 /\ s[2] \in Whitespace
              THEN collapse_whitespace(Tail(s))
              ELSE <<" ">> \o collapse_whitespace(Tail(s))
         ELSE <<s[1]>> \o collapse_whitespace(Tail(s))

\* str.split(sep) for a non-empty literal sep: leftmost non-overlapping matches
RECURSIVE split_from(_, _, _)
split_from(s, sep, cur) ==
    IF s = << >> THEN <<cur>>
    ELSE IF OccursAt(sep, s, 1)
         THEN <<cur>> \o split_from(DropTo(s, Len(sep) + 1), sep, << >>)
         ELSE split_from(Tail(s), sep, Append(cur, s[1]))

split(s, sep) == split_from(s, sep, << >>)

\* re.split(c+, s): split at every maximal run of the character c
RECURSIVE re_split_from(_, _, _)
re_split_from(s, c, cur) ==
    IF s = << >> THEN <<cur>>
    ELSE IF s[1] = c
         THEN IF Len(s) >= 2 /\ s[2] = c
              THEN re_split_from(Tail(s), c, cur)
              ELSE <<cur>> \o re_split_from(Tail(s), c, << >>)
         ELSE re_split_from(Tail(s), c, Append(cur, s[1]))

re_split_run(s, c) == re_split_from(s, c, << >>)

\* one record of csv.reader for a line without quote characters: an empty
\* line is the empty record, any other line is cut at every delimiter
csv_record(line, delim) == IF line = << >> THEN << >> ELSE split(line, delim)

\* str(n) for n >= 0
RECURSIVE str_of_int(_)
str_of_int(n) ==
    IF n < 10 THEN <<Chars("0123456789")[n + 1]>>
    ELSE str_of_int(n \div 10) \o <<Chars("0123456789")[(n % 10) + 1]>>

Repeat(c, n) == [i \in 1..n |-> c]

\* f"{s:<{w}}"
ljust(s, w) == s \o Repeat(" ", w - Len(s))

\* sep.join(parts)
RECURSIVE join(_, _)
join(sep, parts) ==
    IF parts = << >> THEN << >>
    ELSE IF Len(parts) = 1 THEN parts[1]
         ELSE parts[1] \o sep \o join(sep, Tail(parts))

(***************************************************************************)
(* detect_delimiter, lines 54-75                                           *)
(***************************************************************************)
TabRun == Chars("\\t+")

SpaceRun == Chars(" +")

Comma == <<",">>

\* the ValueError raised at line 75, in place of a returned delimiter
UnsupportedDelimiter == <<"ValueError">>

\* detect_delimiter with the built-in heuristics tried before the configured
\* delimiters
detect_delimiter_builtins_first(sample, custom, additional) ==
    IF custom # << >> THEN custom
    ELSE IF HasRun2("\t", sample) THEN TabRun
    ELSE IF HasRun2(" ", sample) THEN SpaceRun
    ELSE IF Contains(Comma, sample) THEN Comma
    ELSE IF \E i \in 1..Len(additional) : Contains(additional[i], sample)
         THEN additional[CHOOSE i \in 1..Len(additional) :
                           /\ Contains(additional[i], sample)
                           /\ \A j \in 1..(i - 1) : ~Contains(additional[j], sample)]
         ELSE UnsupportedDelimiter

detect_delimiter(sample, custom, additional) ==
    IF custom # << >> THEN custom
    ELSE IF \E i \in 1..Len(additional) : Contains(additional[i], sample)
         THEN additional[CHOOSE i \in 1..Len(additional) :
                           /\ Contains(additional[i], sample)
                           /\ \A j \in 1..(i - 1) : ~Contains(additional[j], sample)]
         ELSE IF HasRun2("\t", sample) THEN TabRun
         ELSE IF HasRun2(" ", sample) THEN SpaceRun
         ELSE IF Contains(Comma, sample) THEN Comma
         ELSE UnsupportedDelimiter

(***************************************************************************)
(* clean_field, lines 77-89, and apply_string_case, lines 113-118          *)
(***************************************************************************)
apply_string_case(v, case_type) ==
    IF case_type = "upper" THEN upper(v)
    ELSE IF case_type = "lower" THEN lower(v)
    ELSE v

\* clean_field with field.strip(' '): only spaces are stripped
clean_field_strip_spaces(f, string_case) ==
    LET Spaces(t) == \A i \in 1..Len(t) : t[i] = " "
        first == IF Spaces(f) THEN Len(f) + 1
                 ELSE CHOOSE i \in 1..Len(f) : f[i] # " " /\ Spaces(SubSeq(f, 1, i - 1))
        last == IF Spaces(f) THEN Len(f)
                ELSE CHOOSE i \in 1..Len(f) : f[i] # " " /\ Spaces(SubSeq(f, i + 1, Len(f)))
        collapsed == collapse_whitespace(SubSeq(f, first, last))
    IN  IF string_case = "upper" THEN upper(collapsed)
        ELSE IF string_case = "lower" THEN lower(collapsed)
        ELSE collapsed

clean_field(f, string_case) ==
    LET stripped == strip(f)
        collapsed == collapse_whitespace(stripped)
    IN  IF string_case = "upper" THEN upper(collapsed)
        ELSE IF string_case = "lower" THEN lower(collapsed)
        ELSE collapsed

(***************************************************************************)
(* detect_type, lines 91-103                                               *)
(***************************************************************************)
Tags == {"bool", "int", "float", "str"}

\* str.isdigit() on the model's characters
isdigit(v) == v # << >> /\ \A i \in 1..Len(v) : v[i] \in Digits

\* the automaton of float()'s decimal literal, after the optional sign:
\* digits with single underscores between them, an optional point, an
\* optional exponent
FloatStep(q, c) ==
    CASE q = "start" /\ c \in Digits -> "int"
      [] q = "start" /\ c = "." -> "dot"
      [] q = "int" /\ c \in Digits -> "int"
      [] q = "int" /\ c = "_" -> "int_"
      [] q = "int" /\ c = "." -> "point"
      [] q = "int" /\ c \in {"e", "E"} -> "e"
      [] q = "int_" /\ c \in Digits -> "int"
      [] q = "dot" /\ c \in Digits -> "frac"
      [] q = "point" /\ c \in Digits -> "frac"
      [] q = "point" /\ c \in {"e", "E"} -> "e"
      [] q = "frac" /\ c \in Digits -> "frac"
      [] q = "frac" /\ c = "_" -> "frac_"
      [] q = "frac" /\ c \in {"e", "E"} -> "e"
      [] q = "frac_" /\ c \in Digits -> "frac"
      [] q = "e" /\ c \in {"+", "-"} -> "esign"
      [] q = "e" /\ c \in Digits -> "exp"
      [] q = "esign" /\ c \in Digits -> "exp"
      [] q = "exp" /\ c \in Digits -> "exp"
      [] q = "exp" /\ c = "_" -> "exp_"
      [] q = "exp_" /\ c \in Digits -> "exp"
      [] OTHER -> "reject"

RECURSIVE FloatRun(_, _)
FloatRun(q, s) == IF s = << >> THEN q ELSE FloatRun(FloatStep(q, s[1]), Tail(s))

\* float(v) returns instead of raising ValueError
float_parses(v) ==
    LET body == strip(v)
        unsigned == IF body # << >> /\ body[1] \in {"+", "-"} THEN Tail(body) ELSE body
    IN  \/ lower(unsigned) \in {Chars("inf"), Chars("infinity"), Chars("nan")}
        \/ FloatRun("start", unsigned) \in {"int", "point", "frac", "exp"}

\* detect_type with the test of the hint inverted
detect_type_hint_inverted(v, expected_type) ==
    IF lower(v) \in {Chars("true"), Chars("false")} THEN "bool"
    ELSE IF isdigit(v) THEN "int"
    ELSE IF float_parses(v)
         THEN IF expected_type # "int" /\ ~Contains(<<".">>, v) THEN "int" ELSE "float"
         ELSE "str"

detect_type(v, expected_type) ==
    IF lower(v) \in {Chars("true"), Chars("false")} THEN "bool"
    ELSE IF isdigit(v) THEN "int"
    ELSE IF float_parses(v)
         THEN IF expected_type = "int" /\ ~Contains(<<".">>, v) THEN "int" ELSE "float"
         ELSE "str"

(***************************************************************************)
(* determine_majority_type, lines 105-111                                  *)
(***************************************************************************)
ThresholdNum == 7

ThresholdDen == 10

CountOf(t, types) == Cardinality({i \in 1..Len(types) : types[i] = t})

\* Counter(types).most_common(1)[0][0]: the highest count, the tag met
\* first among equals
most_common_type(types) ==
    types[CHOOSE i \in 1..Len(types) :
            /\ \A j \in 1..Len(types) : CountOf(types[j], types) <= CountOf(types[i], types)
            /\ \A j \in 1..(i - 1) : CountOf(types[j], types) < CountOf(types[i], types)]

\* threshold is num/den; "IndexError" when most_common(1) is empty (line 107)
determine_majority_type(types, num, den) ==
    IF types = << >> THEN "IndexError"
    ELSE LET t == most_common_type(types)
         IN  IF CountOf(t, types) * den >= num * Len(types) THEN t ELSE "None"

(***************************************************************************)
(* format_csv, lines 149-256, as run by main, lines 128-147                *)
(***************************************************************************)
CellPadding == 2

SeqOfRange(a, b) == [i \in 1..(b - a + 1) |-> a + i - 1]

Min(a, b) == IF a <= b THEN a ELSE b

RECURSIVE concat_all(_)
concat_all(seqs) == IF seqs = << >> THEN << >> ELSE seqs[1] \o concat_all(Tail(seqs))

\* lines 156-163: the three ways a file is cut into rows
split_line(line, custom, delim) ==
    IF custom # << >> THEN split(strip(line), custom)
    ELSE IF delim = TabRun THEN re_split_run(strip(line), "\t")
    ELSE IF delim = SpaceRun THEN re_split_run(strip(line), " ")
    ELSE csv_record(line, delim)

\* line 158: the cleaning pass of the custom-delimiter branch only
clean_row(row, string_case) == [i \in 1..Len(row) |-> clean_field(row[i], string_case)]

\* line 183: row.extend([''] * (expected_length - len(row))); a negative
\* count extends by nothing
pad_row(row, n) == row \o [i \in 1..(n - Len(row)) |-> << >>]

\* lines 185-187 for one column, over rows no longer than the header
col_width(rs, i) ==
    LET RECURSIVE widest(_)
        widest(k) == IF k = 0 THEN 0
                     ELSE Max(widest(k - 1), Len(rs[k][i]) + CellPadding)
    IN  widest(Len(rs))

\* lines 195-198 for one column
column_tags(rs, i) == [k \in 1..(Len(rs) - 1) |-> detect_type(rs[k + 1][i], "None")]

\* line 218
actual_length_of(row) == Cardinality({i \in 1..Len(row) : strip(row[i]) # << >>})

\* lines 223-227 for the row with number k
row_type_mismatches(k, row, types, check) ==
    IF ~check THEN << >>
    ELSE LET found == [i \in 1..Len(row) |->
                         <<k, i, detect_type(row[i], types[i]), types[i]>>]
             Mismatch(m) == m[4] # "None" /\ m[3] # m[4]
         IN  SelectSeq(found, Mismatch)

separator_char(cfg) == IF ~cfg.display_column_lines THEN " " ELSE "|"

\* the cells of one table line, lines 210-212 and 229-231
joined_cells(row, n, widths, cfg) ==
    join(<<" ", separator_char(cfg), " ">>,
         [i \in 1..n |-> ljust(apply_string_case(row[i], cfg.string_case), widths[i])])

\* lines 210-212
header_row(rs, n, widths, w, cfg) ==
    Repeat(" ", w) \o <<" ", separator_char(cfg), " ">> \o joined_cells(rs[1], n, widths, cfg)

\* line 214
separator(widths, w) ==
    Repeat("-", 2 * w) \o <<"-">>
        \o join(<<"+">>, [i \in 1..Len(widths) |-> Repeat("-", widths[i] + 2)])

\* lines 229-231
formatted_row(k, row, n, widths, w, cfg) ==
    ljust(str_of_int(k), w) \o <<" ", separator_char(cfg), " ">>
        \o joined_cells(row, n, widths, cfg)

Line(kind, text, k) == [kind |-> kind, text |-> text, row |-> k]

\* lines 229-234 for the row with number k
row_lines(k, row, n, widths, w, cfg) ==
    LET text == formatted_row(k, row, n, widths, w, cfg)
    IN  <<Line("row", text, k)>>
            \o (IF cfg.display_row_lines
                THEN <<Line("row_line", Repeat("-", Len(text)), k)>>
                ELSE << >>)

\* line 207
rows_to_print(rs, cfg) ==
    IF cfg.num_rows_to_print # 0 THEN cfg.num_rows_to_print
    ELSE Len(rs) - cfg.start_index

\* the indexes (from 0) of rows[start_index:start_index + num_rows_to_print]
window(rs, cfg) ==
    SeqOfRange(cfg.start_index,
               Min(cfg.start_index + rows_to_print(rs, cfg), Len(rs)) - 1)

(***************************************************************************)
(* Inputs                                                                  *)
(***************************************************************************)
MaxDataRows == 4

MaxStartIndex == 2

MaxRowLimit == 1

\* CONFIG as written at lines 20-28
DefaultConfig ==
    [additional_delimiters |-> << >>,
     start_index |-> 1,
     num_rows_to_print |-> 0,
     display_column_lines |-> FALSE,
     display_row_lines |-> FALSE,
     check_type_mismatches |-> TRUE,
     string_case |-> "default"]

Semicolon == <<";">>

\* the CONFIG values load_config can leave; start_index is taken from 0 up
Configs ==
    [additional_delimiters : {<< >>, <<Semicolon>>},
     start_index : 0..MaxStartIndex,
     num_rows_to_print : 0..MaxRowLimit,
     display_column_lines : BOOLEAN,
     display_row_lines : BOOLEAN,
     check_type_mismatches : BOOLEAN,
     string_case : {"default", "upper", "lower"}]

ConfigKeys == DOMAIN DefaultConfig

\* what the command line and csvtoolsConfig.json leave behind: the flags of
\* main and a CONFIG, with at most one of them moved off its default besides
\* --display (the start index and the row limit move together)
Settings ==
    {s \in [custom : {<< >>, Semicolon}, display : BOOLEAN, debug : BOOLEAN, config : Configs] :
        Cardinality({k \in ConfigKeys \ {"start_index", "num_rows_to_print"} :
                        s.config[k] # DefaultConfig[k]})
            + (IF s.config.start_index # DefaultConfig.start_index
                  \/ s.config.num_rows_to_print # DefaultConfig.num_rows_to_print
               THEN 1 ELSE 0)
            + (IF s.custom # << >> THEN 1 ELSE 0)
            + (IF s.debug THEN 1 ELSE 0) <= 1}

HeaderLine == Chars(" id,n")

DataLines == {Chars("1, 2 "), Chars("7,abc"), Chars("-3"), Chars("1,2,3")}

SeqsUpTo(S, n) == UNION {[1..k -> S] : k \in 0..n}

\* comma files: a header and up to MaxDataRows data lines, some shorter and
\* some longer than the header; and one small file for each other way of
\* splitting, one with no delimiter at all, one with an empty line
Files ==
    {<< >>}
        \cup {<<HeaderLine>> \o d : d \in SeqsUpTo(DataLines, MaxDataRows)}
        \cup {<<Chars("a;b"), Chars("1;2 ")>>,
              <<Chars("a\t\tb"), Chars("1\t\t\t2")>>,
              <<Chars("a  b"), Chars("1 2   3")>>,
              <<Chars("abc")>>,
              <<Chars("id,n"), << >>, Chars("1,2")>>}

InitFormatCsv ==
    /\ pc = "open"
    /\ outcome = "running"
    /\ \E s \in Settings :
        /\ CUSTOM_DELIMITER = s.custom
        /\ DISPLAY_TABLE = s.display
        /\ DEBUG_MODE = s.debug
        /\ CONFIG = s.config
    /\ file \in Files
    /\ sample_row = << >>
    /\ delimiter = << >>
    /\ rows = << >>
    /\ expected_length = 0
    /\ col_widths = << >>
    /\ column_types = << >>
    /\ expected_types = << >>
    /\ incorrect_length_rows = << >>
    /\ type_mismatches = << >>
    /\ output = << >>
    /\ raw_field = << >>
    /\ field = << >>
    /\ field_once = << >>
    /\ value = << >>
    /\ hint = "None"
    /\ tag_plain = "None"
    /\ tag_hinted = "None"

pure_vars == <<raw_field, field, field_once, value, hint, tag_plain, tag_hinted>>

globals == <<CUSTOM_DELIMITER, DISPLAY_TABLE, DEBUG_MODE, CONFIG, file>>

\* lines 152-153; main turns the ValueError into "Error: ..." (lines 146-147)
DetectDelimiter ==
    /\ pc = "open"
    /\ sample_row' = IF file = << >> THEN << >> ELSE file[1]
    /\ delimiter' = detect_delimiter(sample_row', CUSTOM_DELIMITER, CONFIG.additional_delimiters)
    /\ IF delimiter' = UnsupportedDelimiter
       THEN pc' = "done" /\ outcome' = "ValueError"
       ELSE pc' = "split" /\ outcome' = outcome
    /\ UNCHANGED <<rows, expected_length, col_widths, column_types, expected_types,
                   incorrect_length_rows, type_mismatches, output>>
    /\ UNCHANGED <<globals, pure_vars>>

\* lines 154-163; csv.reader takes a one-character delimiter and raises
\* TypeError for any other
SplitRows ==
    /\ pc = "split"
    /\ IF CUSTOM_DELIMITER = << >> /\ delimiter \notin {TabRun, SpaceRun} /\ Len(delimiter) # 1
       THEN /\ pc' = "done"
            /\ outcome' = "TypeError at line 162"
            /\ rows' = rows
       ELSE /\ pc' = "read"
            /\ outcome' = outcome
            /\ rows' = LET cut == [k \in 1..Len(file) |->
                                     split_line(file[k], CUSTOM_DELIMITER, delimiter)]
                       IN  IF CUSTOM_DELIMITER # << >>
                           THEN [k \in 1..Len(cut) |-> clean_row(cut[k], CONFIG.string_case)]
                           ELSE cut
    /\ UNCHANGED <<sample_row, delimiter, expected_length, col_widths, column_types,
                   expected_types, incorrect_length_rows, type_mismatches, output>>
    /\ UNCHANGED <<globals, pure_vars>>

\* lines 165-169
CheckEmpty ==
    /\ pc = "read"
    /\ IF rows = << >>
       THEN pc' = "done" /\ outcome' = "empty"
       ELSE pc' = "clean" /\ outcome' = outcome
    /\ UNCHANGED <<sample_row, delimiter, rows, expected_length, col_widths, column_types,
                   expected_types, incorrect_length_rows, type_mismatches, output>>
    /\ UNCHANGED <<globals, pure_vars>>

\* lines 172-177
CleanRows ==
    /\ pc = "clean"
    /\ rows' = [k \in 1..Len(rows) |-> clean_row(rows[k], CONFIG.string_case)]
    /\ pc' = "pad"
    /\ UNCHANGED <<outcome, sample_row, delimiter, expected_length, col_widths, column_types,
                   expected_types, incorrect_length_rows, type_mismatches, output>>
    /\ UNCHANGED <<globals, pure_vars>>

\* lines 179-183
PadRows ==
    /\ pc = "pad"
    /\ expected_length' = Len(rows[1])
    /\ col_widths' = [i \in 1..expected_length' |-> 0]
    /\ rows' = [k \in 1..Len(rows) |-> pad_row(rows[k], expected_length')]
    /\ pc' = "widths"
    /\ UNCHANGED <<outcome, sample_row, delimiter, column_types,
                   expected_types, incorrect_length_rows, type_mismatches, output>>
    /\ UNCHANGED <<globals, pure_vars>>

\* lines 185-187; col_widths[i] raises IndexError in the first row that has
\* more cells than the header, and main does not catch it
ComputeWidths ==
    /\ pc = "widths"
    /\ IF \E k \in 1..Len(rows) : Len(rows[k]) > expected_length
       THEN LET bad == CHOOSE k \in 1..Len(rows) :
                         /\ Len(rows[k]) > expected_length
                         /\ \A j \in 1..(k - 1) : Len(rows[j]) <= expected_length
            IN  /\ col_widths' = [i \in 1..expected_length |->
                                    col_width(SubSeq(rows, 1, bad), i)]
                /\ pc' = "done"
                /\ outcome' = "IndexError at line 187"
       ELSE /\ col_widths' = [i \in 1..expected_length |-> col_width(rows, i)]
            /\ pc' = "infer"
            /\ outcome' = outcome
    /\ UNCHANGED <<sample_row, delimiter, rows, expected_length, column_types,
                   expected_types, incorrect_length_rows, type_mismatches, output>>
    /\ UNCHANGED <<globals, pure_vars>>

\* lines 190-200; most_common(1)[0] raises IndexError on a column without
\* tags, and main does not catch it
InferTypes ==
    /\ pc = "infer"
    /\ column_types' = [i \in 1..expected_length |-> column_tags(rows, i)]
    /\ LET majority == [i \in 1..expected_length |->
                          determine_majority_type(column_types'[i], ThresholdNum, ThresholdDen)]
       IN  IF \E i \in 1..expected_length : majority[i] = "IndexError"
           THEN /\ expected_types' = expected_types
                /\ pc' = "done"
                /\ outcome' = "IndexError at line 107"
           ELSE /\ expected_types' = majority
                /\ pc' = "display"
                /\ outcome' = outcome
    /\ UNCHANGED <<sample_row, delimiter, rows, expected_length, col_widths,
                   incorrect_length_rows, type_mismatches, output>>
    /\ UNCHANGED <<globals, pure_vars>>

\* lines 204-234
DisplayTable ==
    /\ pc = "display"
    /\ IF DISPLAY_TABLE
       THEN LET w == Len(str_of_int(Len(rows) - 1))
                shown == window(rows, CONFIG)
                lengths == [j \in 1..Len(shown) |->
                              <<shown[j], actual_length_of(rows[shown[j] + 1])>>]
                WrongLength(r) == r[2] # expected_length
            IN  /\ incorrect_length_rows' = SelectSeq(lengths, WrongLength)
                /\ type_mismatches' =
                      concat_all([j \in 1..Len(shown) |->
                          row_type_mismatches(shown[j], rows[shown[j] + 1], expected_types,
                                              CONFIG.check_type_mismatches)])
                /\ output' =
                      <<Line("header", header_row(rows, expected_length, col_widths, w, CONFIG), 0),
                        Line("divider", separator(col_widths, w), 0)>>
                      \o concat_all([j \in 1..Len(shown) |->
                            row_lines(shown[j], rows[shown[j] + 1], expected_length,
                                      col_widths, w, CONFIG)])
       ELSE UNCHANGED <<incorrect_length_rows, type_mismatches, output>>
    /\ pc' = "report"
    /\ UNCHANGED <<outcome, sample_row, delimiter, rows, expected_length, col_widths,
                   column_types, expected_types>>
    /\ UNCHANGED <<globals, pure_vars>>

\* lines 239-240
length_message(r, n) ==
    Chars("Row ") \o str_of_int(r[1]) \o Chars(" is of length ") \o str_of_int(r[2])
        \o Chars(", expected ") \o str_of_int(n)

\* lines 244-245
mismatch_message(m) ==
    Chars("Row ") \o str_of_int(m[1]) \o Chars(", Column ") \o str_of_int(m[2])
        \o Chars(": Found ") \o Chars(m[3]) \o Chars(", expected ") \o Chars(m[4])

\* lines 236-248
debug_lines(lengths, mismatches, n) ==
    (IF lengths # << >>
     THEN <<Line("debug", Chars("\nROWS WITH INCORRECT LENGTH:"), 0)>>
             \o [j \in 1..Len(lengths) |-> Line("debug", length_message(lengths[j], n), lengths[j][1])]
     ELSE << >>)
    \o (IF mismatches # << >>
        THEN <<Line("debug", Chars("\nROWS WITH POTENTIAL TYPE MISMATCHES:"), 0)>>
                \o [j \in 1..Len(mismatches) |->
                       Line("debug", mismatch_message(mismatches[j]), mismatches[j][1])]
        ELSE << >>)
    \o <<Line("debug", Chars("\nTotal number of rows with incorrect length: ")
                          \o str_of_int(Len(lengths)), 0),
         Line("debug", Chars("Total number of type mismatches: ")
                          \o str_of_int(Len(mismatches)), 0)>>

\* lines 236-256; the joined output goes to the terminal or to SAVE_TO_FILE
Report ==
    /\ pc = "report"
    /\ output' = output
                    \o (IF DEBUG_MODE
                        THEN debug_lines(incorrect_length_rows, type_mismatches, expected_length)
                        ELSE << >>)
                    \o <<Line("end", << >>, 0)>>
    /\ pc' = "done"
    /\ outcome' = "ok"
    /\ UNCHANGED <<sample_row, delimiter, rows, expected_length, col_widths, column_types,
                   expected_types, incorrect_length_rows, type_mismatches>>
    /\ UNCHANGED <<globals, pure_vars>>

(***************************************************************************)
(* Direct calls of the pure functions                                      *)
(***************************************************************************)
MaxValueLen == 3

MaxSampleLen == 4

MaxFieldLen == 5

StringsUpTo(alphabet, n) == SeqsUpTo(alphabet, n)

\* every short string over the characters detect_type looks at, and the
\* words it knows
CellValues ==
    StringsUpTo({"1", ".", "-", "e", "a"}, MaxValueLen)
        \cup {Chars("true"), Chars("TRUE"), Chars("False"), Chars("inf"), Chars("NaN"),
              Chars("1_0"), Chars("1e-5"), Chars("+1.5"), Chars("-1.e1"), Chars("1 2")}

\* the state format_csv leaves untouched while a pure function is called
Idle ==
    /\ outcome = "running"
    /\ DISPLAY_TABLE = FALSE
    /\ DEBUG_MODE = FALSE
    /\ file = << >>
    /\ rows = << >>
    /\ expected_length = 0
    /\ col_widths = << >>
    /\ column_types = << >>
    /\ expected_types = << >>
    /\ incorrect_length_rows = << >>
    /\ type_mismatches = << >>
    /\ output = << >>

InitDetectType ==
    /\ pc = "detect_type"
    /\ Idle
    /\ CUSTOM_DELIMITER = << >>
    /\ CONFIG = DefaultConfig
    /\ sample_row = << >>
    /\ delimiter = << >>
    /\ raw_field = << >>
    /\ field = << >>
    /\ field_once = << >>
    /\ value \in CellValues
    /\ hint \in Tags \cup {"None"}
    /\ tag_plain = "None"
    /\ tag_hinted = "None"

\* detect_type(value) as line 198 calls it and detect_type(value, hint) as
\* line 225 does
CallDetectType ==
    /\ pc = "detect_type"
    /\ tag_plain' = detect_type(value, "None")
    /\ tag_hinted' = detect_type(value, hint)
    /\ pc' = "returned"
    /\ UNCHANGED <<outcome, sample_row, delimiter, rows, expected_length, col_widths,
                   column_types, expected_types, incorrect_length_rows, type_mismatches,
                   output, globals, raw_field, field, field_once, value, hint>>

Init == InitFormatCsv \/ InitDetectType

Next ==
    \/ DetectDelimiter
    \/ SplitRows
    \/ CheckEmpty
    \/ CleanRows
    \/ PadRows
    \/ ComputeWidths
    \/ InferTypes
    \/ DisplayTable
    \/ Report
    \/ CallDetectType

Spec == Init /\ [][Next]_vars

\* detect_delimiter on every short sample line
InitDelimiter ==
    /\ pc = "detect_delimiter"
    /\ Idle
    /\ CUSTOM_DELIMITER \in {<< >>, Semicolon, Chars("::")}
    /\ \E additional \in {<< >>, <<Semicolon>>, <<Semicolon, <<"|">>>>, <<<<"|">>, Semicolon>>,
                          <<Chars(", ")>>, <<<< >>>>} :
          CONFIG = [DefaultConfig EXCEPT !.additional_delimiters = additional]
    /\ sample_row \in StringsUpTo({"\t", " ", ",", ";", "|", "a"}, MaxSampleLen)
    /\ delimiter = << >>
    /\ raw_field = << >>
    /\ field = << >>
    /\ field_once = << >>
    /\ value = << >>
    /\ hint = "None"
    /\ tag_plain = "None"
    /\ tag_hinted = "None"

CallDetectDelimiter ==
    /\ pc = "detect_delimiter"
    /\ delimiter' = detect_delimiter(sample_row, CUSTOM_DELIMITER, CONFIG.additional_delimiters)
    /\ pc' = "returned"
    /\ UNCHANGED <<outcome, sample_row, rows, expected_length, col_widths,
                   column_types, expected_types, incorrect_length_rows, type_mismatches,
                   output, globals, pure_vars>>

NextDelimiter == CallDetectDelimiter

SpecDelimiter == InitDelimiter /\ [][NextDelimiter]_vars

\* clean_field on every short string, in every string_case, applied twice
InitClean ==
    /\ pc = "clean_field"
    /\ Idle
    /\ CUSTOM_DELIMITER = << >>
    /\ \E c \in {"default", "upper", "lower"} :
          CONFIG = [DefaultConfig EXCEPT !.string_case = c]
    /\ sample_row = << >>
    /\ delimiter = << >>
    /\ raw_field \in StringsUpTo({" ", "\t", "a", "B"}, MaxFieldLen)
    /\ field = raw_field
    /\ field_once = << >>
    /\ value = << >>
    /\ hint = "None"
    /\ tag_plain = "None"
    /\ tag_hinted = "None"

CleanOnce ==
    /\ pc = "clean_field"
    /\ field' = clean_field(field, CONFIG.string_case)
    /\ field_once' = field'
    /\ pc' = "cleaned_once"
    /\ UNCHANGED <<outcome, sample_row, delimiter, rows, expected_length, col_widths,
                   column_types, expected_types, incorrect_length_rows, type_mismatches,
                   output, globals, raw_field, value, hint, tag_plain, tag_hinted>>

CleanAgain ==
    /\ pc = "cleaned_once"
    /\ field' = clean_field(field, CONFIG.string_case)
    /\ pc' = "cleaned_twice"
    /\ UNCHANGED <<outcome, sample_row, delimiter, rows, expected_length, col_widths,
                   column_types, expected_types, incorrect_length_rows, type_mismatches,
                   output, globals, raw_field, field_once, value, hint, tag_plain, tag_hinted>>

NextClean == CleanOnce \/ CleanAgain

SpecClean == InitClean /\ [][NextClean]_vars

(***************************************************************************)
(* Claims                                                                  *)
(***************************************************************************)
Range(seq) == {seq[i] : i \in 1..Len(seq)}

Finished == pc = "done" /\ outcome = "ok"

DataRows == 1..(Len(rows) - 1)

\* C1: a run of format_csv over a file with zero lines ends in the message
\* "The file is empty.", never in the unsupported-delimiter error, whatever
\* the configuration, and nothing is cleaned, measured, typed or rendered.
C1_EmptyFileReportedEmpty ==
    (file = << >> /\ pc = "done") =>
        /\ outcome = "empty"
        /\ rows = << >>
        /\ col_widths = << >>
        /\ column_types = << >>
        /\ output = << >>

\* C2: after normalization every row, header included, has exactly
\* expected_length cells, the width computation that follows does not fail,
\* and normalizing the normalized rows again changes nothing.
C2_RowsNormalized ==
    /\ pc \in {"widths", "infer", "display", "report"} =>
          /\ \A k \in 1..Len(rows) : Len(rows[k]) = expected_length
          /\ [k \in 1..Len(rows) |->
                 pad_row(clean_row(rows[k], CONFIG.string_case), expected_length)] = rows
    /\ outcome # "IndexError at line 187"

\* C3: detect_delimiter returns the override if one is set; else the first
\* configured additional delimiter, in list order, that is a substring of the
\* sample line; else the tab run if the line has two consecutive tabs; else
\* the space run if it has two consecutive spaces; else the comma if it has
\* one; else it raises the unsupported-delimiter error.
SubstringOf(d, line) ==
    \E i \in 1..(Len(line) + 1) : \E j \in 0..Len(line) : SubSeq(line, i, j) = d

C3_DelimiterPriority ==
    pc = "returned" =>
        LET additional == CONFIG.additional_delimiters
            present == {i \in 1..Len(additional) : SubstringOf(additional[i], sample_row)}
            tabs == SubstringOf(<<"\t", "\t">>, sample_row)
            spaces == SubstringOf(<<" ", " ">>, sample_row)
            comma == SubstringOf(<<",">>, sample_row)
        IN  /\ CUSTOM_DELIMITER # << >> => delimiter = CUSTOM_DELIMITER
            /\ CUSTOM_DELIMITER = << >> /\ present # {} =>
                  \E i \in present : /\ delimiter = additional[i]
                                     /\ \A j \in present : i <= j
            /\ CUSTOM_DELIMITER = << >> /\ present = {} =>
                  /\ tabs => delimiter = TabRun
                  /\ ~tabs /\ spaces => delimiter = SpaceRun
                  /\ ~tabs /\ ~spaces /\ comma => delimiter = Comma
                  /\ ~tabs /\ ~spaces /\ ~comma => delimiter = UnsupportedDelimiter

\* an additional delimiter chosen on a line that also has a tab run and a comma
C3_Witness ==
    /\ pc = "returned"
    /\ CUSTOM_DELIMITER = << >>
    /\ CONFIG.additional_delimiters = <<<<"|">>, Semicolon>>
    /\ sample_row = <<",", "\t", "\t", ";">>
    /\ delimiter = Semicolon

\* C4: on every tag list format_csv builds for a column, the list of a
\* header-only file included, and for every threshold, determine_majority_type
\* does not fail, returns a tag only if it is a most frequent one whose share
\* is at least the threshold, returns None when no tag reaches the threshold,
\* and returns the shared tag at threshold 1.0 when all tags are equal.
C4_MajorityTotalAndSound ==
    /\ outcome # "IndexError at line 107"
    /\ \A i \in 1..Len(column_types) : \A num \in 0..ThresholdDen :
          LET tags == column_types[i]
              r == determine_majority_type(tags, num, ThresholdDen)
              Reaches(t) == CountOf(t, tags) * ThresholdDen >= num * Len(tags)
          IN  /\ r \in Tags \cup {"None"}
              /\ r \in Tags => Reaches(r) /\ \A t \in Tags : CountOf(t, tags) <= CountOf(r, tags)
              /\ (\A t \in Range(tags) : ~Reaches(t)) => r = "None"
              /\ (num = ThresholdDen /\ \A k \in 1..Len(tags) : tags[k] = tags[1]) => r = tags[1]
    /\ pc \in {"display", "report"} =>
          \A i \in 1..expected_length :
              expected_types[i] =
                  determine_majority_type(column_types[i], ThresholdNum, ThresholdDen)

\* C5: in a finished run the length anomalies are exactly the data rows
\* whose count of non-blank cells differs from expected_length, in row order,
\* whatever the display toggle, the start index and the row limit are.
C5_EveryDataRowChecked ==
    Finished =>
        LET counted == [k \in DataRows |-> <<k, actual_length_of(rows[k + 1])>>]
            WrongLength(r) == r[2] # expected_length
        IN  incorrect_length_rows = SelectSeq(counted, WrongLength)

\* C6: in a finished run a type anomaly (row, column, observed, expected) is
\* recorded for a data cell if and only if type checking is enabled, the
\* column has a majority type and detect_type(cell, majority) differs from it.
C6_TypeAnomalyIffMismatch ==
    Finished =>
        /\ \A k \in DataRows : \A i \in 1..expected_length :
              LET expected == expected_types[i]
                  observed == detect_type(rows[k + 1][i], expected)
              IN  (<<k, i, observed, expected>> \in Range(type_mismatches))
                      <=> /\ CONFIG.check_type_mismatches
                          /\ expected # "None"
                          /\ observed # expected
        /\ ~CONFIG.check_type_mismatches => type_mismatches = << >>
        /\ \A m \in Range(type_mismatches) : m[4] # "None"

\* C7: row 0 is only ever the header: every rendered data line is the row
\* at an index k >= 1 under the number k, no anomaly is recorded for row 0,
\* and the type tally of a column holds one tag per data row.
C7_HeaderNeverData ==
    /\ pc \in {"display", "report"} =>
          \A i \in 1..expected_length :
              column_types[i] = [k \in DataRows |-> detect_type(rows[k + 1][i], "None")]
    /\ \A j \in 1..Len(output) :
          output[j].kind = "row" =>
              /\ output[j].row \in DataRows
              /\ output[j].text =
                    formatted_row(output[j].row, rows[output[j].row + 1], expected_length,
                                  col_widths, Len(str_of_int(Len(rows) - 1)), CONFIG)
    /\ \A r \in Range(incorrect_length_rows) : r[1] >= 1
    /\ \A m \in Range(type_mismatches) : m[1] >= 1

\* C8: the divider under the header is made of dashes only and is as long
\* as the header line.
C8_DividerMatchesHeader ==
    \A j \in 1..(Len(output) - 1) :
        output[j].kind = "header" =>
            /\ output[j + 1].kind = "divider"
            /\ Len(output[j + 1].text) = Len(output[j].text)
            /\ \A c \in 1..Len(output[j + 1].text) : output[j + 1].text[c] = "-"

\* C9: clean_field applied to its own result returns it unchanged: the
\* result has no whitespace at either end, no two whitespace characters in
\* a row, and is in the configured case.
Cleaned(f, string_case) ==
    /\ f # << >> => f[1] \notin Whitespace /\ f[Len(f)] \notin Whitespace
    /\ \A i \in 1..(Len(f) - 1) : ~(f[i] \in Whitespace /\ f[i + 1] \in Whitespace)
    /\ apply_string_case(f, string_case) = f

C9_CleanFieldIdempotent ==
    /\ pc \in {"cleaned_once", "cleaned_twice"} => Cleaned(field, CONFIG.string_case)
    /\ pc = "cleaned_once" => field_once = field
    /\ pc = "cleaned_twice" => field = field_once

\* a string with whitespace at both ends and a run inside, cleaned twice
C9_Witness ==
    /\ pc = "cleaned_twice"
    /\ CONFIG.string_case = "upper"
    /\ raw_field = <<"\t", "a", " ", "\t", "B">>
    /\ field_once = <<"A", " ", "B">>
    /\ field = field_once

\* C10: whenever detect_type(v) is T, detect_type(v, T) is T as well; so no
\* cell that counted toward its column's majority is recorded as a type
\* anomaly, and when every data row is scanned a column with a majority
\* type has anomalies in at most 30% of its data rows.
AllDataRowsScanned ==
    /\ DISPLAY_TABLE
    /\ \A k \in DataRows :
          \E j \in 1..Len(output) : output[j].kind = "row" /\ output[j].row = k

AnomalousRows(i) ==
    {k \in DataRows : \E m \in Range(type_mismatches) : m[1] = k /\ m[2] = i}

C10_HintAgreesWithInference ==
    /\ (pc = "returned" /\ tag_plain = hint) => tag_hinted = hint
    /\ pc \in {"report", "done"} /\ outcome \in {"running", "ok"} =>
          /\ \A m \in Range(type_mismatches) :
                m[1] \in DataRows => column_types[m[2]][m[1]] # expected_types[m[2]]
          /\ AllDataRowsScanned =>
                \A i \in 1..expected_length :
                    expected_types[i] # "None" =>
                        ThresholdDen * Cardinality(AnomalousRows(i))
                            <= (ThresholdDen - ThresholdNum) * Cardinality(DataRows)

\* every data row scanned, a column with a majority, and an anomaly in it
C10_Witness ==
    /\ Finished
    /\ AllDataRowsScanned
    /\ \E i \in 1..expected_length :
          expected_types[i] = "int" /\ Cardinality(AnomalousRows(i)) = 1
    /\ \E k \in DataRows : column_types[1][k] = "float" /\ expected_types[1] = "int"

====
